---- MODULE Spec2Model ----
(***************************************************************************)
(* A model of grstools/utils.py: parse_grs_file (reading, projecting,      *)
(* normalising and filtering a GRS definition table) and regress (loading, *)
(* merging, validating, dispatching a regression and extracting the        *)
(* result record).                                                         *)
(*                                                                         *)
(* Text values are sequences of one-character strings, so that             *)
(* str.upper() and the substring test "grs" in model are computed          *)
(* character by character.  Floating point values are integers (only their *)
(* order matters to the code) plus NaN, the value read_csv gives an empty  *)
(* cell of a float column, with which every comparison is false.           *)
(***************************************************************************)
EXTENDS Integers, Sequences, FiniteSets, TLC

VARIABLES
    \* ---- parse_grs_file ----
    p_threshold,    \* argument p_threshold
    maf_threshold,  \* argument maf_threshold
    log,            \* argument log
    source,         \* the table pd.read_csv returned (never modified)
    df,             \* the local variable df
    logged,         \* the records handed to logger.info, in order
    pc,             \* position in parse_grs_file
    perr,           \* the exception parse_grs_file raised, or "none"
    \* ---- regress ----
    model,          \* argument model
    test,           \* argument test
    calls,          \* the collaborator calls made so far, in order
    results,        \* subscriber.results
    out,            \* the dict out
    rpc,            \* position in regress
    rerr            \* the exception regress raised, or "none"

parseVars == <<p_threshold, maf_threshold, log, source, df, logged, pc, perr>>
regressVars == <<model, test, calls, results, out, rpc, rerr>>
vars == <<p_threshold, maf_threshold, log, source, df, logged, pc, perr,
          model, test, calls, results, out, rpc, rerr>>

\* ------------------------------------------------------------------ bounds
MaxRows == 2        \* rows in the source table
MaxGroups == 2      \* result groups the engine may deliver

\* ------------------------------------------------------------------ values
NaN == 99           \* stands for float("nan"); never compared by order

\* a <= b on floats: false when either side is NaN
FloatLe(a, b) == a # NaN /\ b # NaN /\ a <= b

\* a >= b on floats: false when either side is NaN
FloatGe(a, b) == a # NaN /\ b # NaN /\ a >= b

\* str.upper() on one character
UpperChar(c) ==
    CASE c = "a" -> "A"
      [] c = "c" -> "C"
      [] c = "g" -> "G"
      [] c = "t" -> "T"
      [] c = "r" -> "R"
      [] c = "s" -> "S"
      [] c = "x" -> "X"
      [] OTHER -> c

\* str.upper() on a string
Upper(s) == [i \in DOMAIN s |-> UpperChar(s[i])]

SeqsUpTo(S, n) == UNION {[1..k -> S] : k \in 0..n}

Range(s) == {s[i] : i \in DOMAIN s}

\* ------------------------------------------------------------------ columns
\* list(COL_TYPES.keys())
MandatoryCols == <<"name", "chrom", "pos", "reference", "risk", "p-value", "effect">>

\* the column order of a source file: any order is legal, this one differs
\* from the order of COL_TYPES
FileOrder == <<"extra", "maf", "effect", "p-value", "risk", "reference",
               "pos", "chrom", "name">>

SeqWithout(s, drop) == SelectSeq(s, LAMBDA c : c \notin drop)

\* the headers of the source files considered: all mandatory columns, with or
\* without maf and an unknown column; each mandatory column missing from a
\* file without maf; effect missing from a file with maf
Headers ==
    {SeqWithout(FileOrder, drop) : drop \in SUBSET {"maf", "extra"}}
    \cup {SeqWithout(FileOrder, {c, "maf"}) : c \in Range(MandatoryCols)}
    \cup {SeqWithout(FileOrder, {"effect"})}

\* the text cells of a row
Texts ==
    { [name |-> <<"r", "s", "1">>, chrom |-> <<"x">>,
       reference |-> <<"a">>, risk |-> <<"T", "g">>],
      [name |-> <<"R", "s", "2">>, chrom |-> <<"1">>,
       reference |-> <<"A">>, risk |-> <<"-">>] }

PValues == {0, 1, 2, NaN}
MafValues == {-1, 0, 1}
\* the defaults of the signature: p_threshold=1, maf_threshold=0
DefaultPThreshold == 1
DefaultMafThreshold == 0

PThresholds == {0, DefaultPThreshold}
MafThresholds == {DefaultMafThreshold, 1}

FullRow(t, p, m) ==
    ("name" :> t.name) @@ ("chrom" :> t.chrom) @@ ("pos" :> 7)
    @@ ("reference" :> t.reference) @@ ("risk" :> t.risk)
    @@ ("p-value" :> p) @@ ("effect" :> 3) @@ ("maf" :> m) @@ ("extra" :> 5)

Project(row, cols) == [c \in Range(cols) |-> row[c]]

RowsOver(header) ==
    {Project(FullRow(t, p, m), header) : t \in Texts, p \in PValues, m \in MafValues}

\* a data frame: its columns, its index labels and its rows, in order
Frame(cols, index, data) == [columns |-> cols, index |-> index, data |-> data]

\* pd.read_csv(filename, sep=sep, dtype=COL_TYPES): a RangeIndex from 0
ReadCsv(header, rows) == Frame(header, [i \in DOMAIN rows |-> i - 1], rows)

\* ------------------------------------------------------------------ parse_grs_file
\* Cols with a tolerant projection: the columns of the list that df has
ColsPresent(d) ==
    SelectSeq(Append(MandatoryCols, "maf"), LAMBDA c : c \in Range(d.columns))

\* cols = list(COL_TYPES.keys()), plus "maf" if it is a column of df
Cols(d) ==
    IF "maf" \in Range(d.columns) THEN Append(MandatoryCols, "maf") ELSE MandatoryCols

\* df[cols]
ProjectFrame(d, cols) ==
    Frame(cols, d.index, [i \in DOMAIN d.data |-> Project(d.data[i], cols)])

\* df[col] = df[col].str.upper()
UpperColumn(d, col) ==
    Frame(d.columns, d.index,
          [i \in DOMAIN d.data |-> [d.data[i] EXCEPT ![col] = Upper(@)]])

\* Normalize with line 60 reading the reference column again
NormalizeReferenceTwice(d) == UpperColumn(UpperColumn(d, "reference"), "reference")

\* str.upper() on both allele columns, lines 59 and 60
Normalize(d) == UpperColumn(UpperColumn(d, "reference"), "risk")

\* the positions a boolean mask marks True, in order, from position i on
RECURSIVE KeptPositions(_, _)
KeptPositions(mask, i) ==
    IF i > Len(mask) THEN <<>>
    ELSE (IF mask[i] THEN <<i>> ELSE <<>>) \o KeptPositions(mask, i + 1)

\* Loc followed by drop_duplicates(): of equal rows only the first is kept
LocDropDuplicates(d, mask) ==
    LET pos == KeptPositions(
                   [i \in DOMAIN mask |->
                      mask[i] /\ \A j \in 1..(i - 1) : ~(mask[j] /\ d.data[j] = d.data[i])],
                   1)
    IN Frame(d.columns,
             [k \in DOMAIN pos |-> d.index[pos[k]]],
             [k \in DOMAIN pos |-> d.data[pos[k]]])

\* df.loc[mask, :]: the rows the mask marks, with their index labels
Loc(d, mask) ==
    LET pos == KeptPositions(mask, 1)
    IN Frame(d.columns,
             [k \in DOMAIN pos |-> d.index[pos[k]]],
             [k \in DOMAIN pos |-> d.data[pos[k]]])

\* FilterPValue with an exclusive bound, p-value < p_threshold
FilterPValueExclusive(d, thr) ==
    Loc(d, [i \in DOMAIN d.data |->
              FloatLe(d.data[i]["p-value"], thr) /\ d.data[i]["p-value"] # thr])

\* df.loc[df["p-value"] <= p_threshold, :]
FilterPValue(d, thr) ==
    Loc(d, [i \in DOMAIN d.data |-> FloatLe(d.data[i]["p-value"], thr)])

\* df.loc[df["maf"] >= maf_threshold, :]
FilterMaf(d, thr) ==
    Loc(d, [i \in DOMAIN d.data |-> FloatGe(d.data[i]["maf"], thr)])

PMessage(thr) == <<"Applying p-value threshold (p <= {}).", thr>>
MafMessage(thr) == <<"Applying MAF threshold (MAF >= {}).", thr>>

\* line 27 and line 47: the arguments, and the table read from the file
InitParse ==
    /\ p_threshold \in PThresholds
    /\ maf_threshold \in MafThresholds
    /\ log \in BOOLEAN
    /\ \E header \in Headers :
         \E rows \in SeqsUpTo(RowsOver(header), MaxRows) :
            /\ source = ReadCsv(header, rows)
            /\ df = ReadCsv(header, rows)
    /\ logged = <<>>
    /\ pc = "project"
    /\ perr = "none"
    /\ model = <<>>
    /\ test = "linear"
    /\ calls = <<>>
    /\ results = <<>>
    /\ out = <<>>
    /\ rpc = "idle"
    /\ rerr = "none"

\* lines 49-56: df = df[cols], a KeyError when a column of cols is missing
ProjectStep ==
    /\ pc = "project"
    /\ LET cols == Cols(df) IN
       IF Range(cols) \subseteq Range(df.columns)
       THEN /\ df' = ProjectFrame(df, cols)
            /\ pc' = "normalize"
            /\ perr' = perr
       ELSE /\ df' = df
            /\ pc' = "failed"
            /\ perr' = "KeyError"
    /\ UNCHANGED <<p_threshold, maf_threshold, log, source, logged>>
    /\ UNCHANGED regressVars

\* lines 58-60
NormalizeStep ==
    /\ pc = "normalize"
    /\ df' = Normalize(df)
    /\ pc' = "log_p"
    /\ UNCHANGED <<p_threshold, maf_threshold, log, source, logged, perr>>
    /\ UNCHANGED regressVars

\* lines 63-65
LogPStep ==
    /\ pc = "log_p"
    /\ logged' = IF log THEN Append(logged, PMessage(p_threshold)) ELSE logged
    /\ pc' = "filter_p"
    /\ UNCHANGED <<p_threshold, maf_threshold, log, source, df, perr>>
    /\ UNCHANGED regressVars

\* line 67
FilterPStep ==
    /\ pc = "filter_p"
    /\ df' = FilterPValue(df, p_threshold)
    /\ pc' = "maf"
    /\ UNCHANGED <<p_threshold, maf_threshold, log, source, logged, perr>>
    /\ UNCHANGED regressVars

\* LogMafStep with the message emitted outside the test for a maf column
LogMafStepUnconditional ==
    /\ pc = "maf"
    /\ logged' = IF log THEN Append(logged, MafMessage(maf_threshold)) ELSE logged
    /\ pc' = IF "maf" \in Range(df.columns) THEN "filter_maf" ELSE "done"
    /\ UNCHANGED <<p_threshold, maf_threshold, log, source, df, perr>>
    /\ UNCHANGED regressVars

\* lines 69-72, and line 75 when df has no maf column
LogMafStep ==
    /\ pc = "maf"
    /\ IF "maf" \in Range(df.columns)
       THEN /\ logged' = IF log THEN Append(logged, MafMessage(maf_threshold))
                         ELSE logged
            /\ pc' = "filter_maf"
       ELSE /\ logged' = logged
            /\ pc' = "done"
    /\ UNCHANGED <<p_threshold, maf_threshold, log, source, df, perr>>
    /\ UNCHANGED regressVars

\* lines 73-75
FilterMafStep ==
    /\ pc = "filter_maf"
    /\ df' = FilterMaf(df, maf_threshold)
    /\ pc' = "done"
    /\ UNCHANGED <<p_threshold, maf_threshold, log, source, logged, perr>>
    /\ UNCHANGED regressVars

NextParse ==
    \/ ProjectStep
    \/ NormalizeStep
    \/ LogPStep
    \/ FilterPStep
    \/ LogMafStep
    \/ FilterMafStep

SpecParse == InitParse /\ [][NextParse]_vars

\* ------------------------------------------------------------------ properties of parse_grs_file
Returned == pc = "done"

SourceHasMaf == "maf" \in Range(source.columns)

\* the position in the source of the k-th row of df
SourcePos(k) == df.index[k] + 1

\* the threshold predicate of the specification, on a source row
Retained(row) ==
    /\ row["p-value"] # NaN
    /\ row["p-value"] <= p_threshold
    /\ SourceHasMaf => (row["maf"] # NaN /\ row["maf"] >= maf_threshold)

RetainedPositions == {i \in DOMAIN source.data : Retained(source.data[i])}

\* the upper-case form of each lower-case letter
UpperCaseOf ==
    ("a" :> "A") @@ ("c" :> "C") @@ ("g" :> "G") @@ ("t" :> "T")
    @@ ("r" :> "R") @@ ("s" :> "S") @@ ("x" :> "X")

\* u is the upper-case form of s
IsUpperCaseForm(u, s) ==
    /\ Len(u) = Len(s)
    /\ \A i \in DOMAIN s :
         u[i] = (IF s[i] \in DOMAIN UpperCaseOf THEN UpperCaseOf[s[i]] ELSE s[i])

\* C1: the table parse_grs_file returns holds exactly the source rows with
\* p-value <= p_threshold and (no maf column, or maf >= maf_threshold), both
\* bounds inclusive: every returned row satisfies the predicate and every
\* source row that satisfies it is returned.
C1_FilterExact ==
    Returned =>
        /\ Len(df.index) = Len(df.data)
        /\ {SourcePos(k) : k \in DOMAIN df.index} = RetainedPositions
        /\ \A k \in DOMAIN df.data :
             /\ df.data[k]["p-value"] = source.data[SourcePos(k)]["p-value"]
             /\ df.data[k]["p-value"] <= p_threshold
             /\ SourceHasMaf =>
                  /\ df.data[k]["maf"] = source.data[SourcePos(k)]["maf"]
                  /\ df.data[k]["maf"] >= maf_threshold

\* a row exactly on both thresholds is returned while another row is dropped
C1_Witness ==
    /\ Returned
    /\ SourceHasMaf
    /\ Len(df.data) < Len(source.data)
    /\ \E k \in DOMAIN df.data :
         /\ df.data[k]["p-value"] = p_threshold
         /\ df.data[k]["maf"] = maf_threshold

MissingMandatory == Range(MandatoryCols) \ Range(source.columns)

\* C6: a source lacking a mandatory column fails with the KeyError of the
\* projection and no table is returned; a source with all seven is never
\* refused for its other columns, and the returned table has exactly the seven
\* mandatory columns, plus maf if and only if the source has maf.
C6_Schema ==
    /\ MissingMandatory # {} =>
         /\ pc \in {"project", "failed"}
         /\ pc = "failed" => perr = "KeyError"
    /\ MissingMandatory = {} =>
         /\ pc # "failed"
         /\ perr = "none"
         /\ Returned =>
              /\ Range(df.columns) =
                   Range(MandatoryCols) \cup (IF SourceHasMaf THEN {"maf"} ELSE {})
              /\ Len(df.columns) = Cardinality(Range(df.columns))
              /\ \A k \in DOMAIN df.data : DOMAIN df.data[k] = Range(df.columns)

\* a source with maf and without effect has been refused
C6_Witness ==
    /\ pc = "failed"
    /\ perr = "KeyError"
    /\ MissingMandatory = {"effect"}
    /\ SourceHasMaf
    /\ Len(source.data) > 0

\* C7: the returned rows are a subsequence of the source rows: they come in
\* the order of the source, and every source row that satisfies the thresholds
\* is there once for each time it is in the source, its duplicates included.
C7_StableFilter ==
    Returned =>
        /\ \A k \in DOMAIN df.index : SourcePos(k) \in DOMAIN source.data
        /\ \A k, l \in DOMAIN df.index : k < l => SourcePos(k) < SourcePos(l)
        /\ \A k \in DOMAIN df.data :
             \A c \in Range(df.columns) :
                IF c \in {"reference", "risk"}
                THEN IsUpperCaseForm(df.data[k][c], source.data[SourcePos(k)][c])
                ELSE df.data[k][c] = source.data[SourcePos(k)][c]
        /\ Len(df.data) = Cardinality(RetainedPositions)

\* two equal source rows, the name included, are both returned
C7_Witness ==
    /\ Returned
    /\ SourceHasMaf
    /\ Len(source.data) = 2
    /\ source.data[1] = source.data[2]
    /\ Len(df.data) = 2
    /\ df.data[1] = df.data[2]

\* C8 (as stated): with the default thresholds every row of a source that
\* has all mandatory columns is returned, whatever its p-value and maf.
C8_DefaultsAdmitEverything ==
    (Returned /\ p_threshold = DefaultPThreshold /\ maf_threshold = DefaultMafThreshold)
        => Len(df.data) = Len(source.data)

\* C9: in every returned row reference and risk are the upper-case form of
\* the source values, normalising the returned table again changes nothing,
\* and every other column has the value of the source row.
C9_Uppercase ==
    Returned =>
        /\ \A k \in DOMAIN df.data :
             /\ IsUpperCaseForm(df.data[k]["reference"],
                                source.data[SourcePos(k)]["reference"])
             /\ IsUpperCaseForm(df.data[k]["risk"],
                                source.data[SourcePos(k)]["risk"])
             /\ \A c \in Range(df.columns) \ {"reference", "risk"} :
                  df.data[k][c] = source.data[SourcePos(k)][c]
        /\ Normalize(df) = df

\* a returned row whose alleles were not upper-case in the source, and whose
\* name has lower-case letters left as they were
C9_Witness ==
    /\ Returned
    /\ \E k \in DOMAIN df.data :
         /\ df.data[k]["reference"] # source.data[SourcePos(k)]["reference"]
         /\ df.data[k]["risk"] # source.data[SourcePos(k)]["risk"]
         /\ df.data[k]["name"] = <<"r", "s", "1">>

PLogged == PMessage(p_threshold) \in Range(logged)
MafLogged == MafMessage(maf_threshold) \in Range(logged)

\* C10 (as stated): with logging on, both threshold messages are emitted in
\* every execution that returns, each while no row has been removed from the
\* table.
C10_BothBeforeAnyFiltering ==
    /\ [](log /\ Returned => (PLogged /\ MafLogged))
    /\ [][logged' # logged => Len(df.data) = Len(source.data)]_vars

\* C10 (amended): with logging on, every execution that passes the projection
\* emits the p-value message, and emits it before any row is removed; the MAF
\* message is emitted if and only if the source has a maf column, after the
\* p-value filter has been applied and before the MAF filter is; an execution
\* the projection refuses emits neither.
C10_EachBeforeItsFilter ==
    /\ [](log /\ pc \in {"filter_p", "maf", "filter_maf", "done"} => PLogged)
    /\ [](log /\ pc \in {"filter_maf", "done"} => (MafLogged <=> SourceHasMaf))
    /\ [](pc = "failed" => logged = <<>>)
    /\ [](Len(logged) <= 2)
    /\ [][(Len(logged') > Len(logged) /\ Len(logged) = 0) =>
            /\ logged' = <<PMessage(p_threshold)>>
            /\ Len(df.data) = Len(source.data)
            /\ df' = df]_vars
    /\ [][(Len(logged') > Len(logged) /\ Len(logged) = 1) =>
            /\ logged' = <<PMessage(p_threshold), MafMessage(maf_threshold)>>
            /\ {SourcePos(k) : k \in DOMAIN df.index} =
                 {i \in DOMAIN source.data :
                    source.data[i]["p-value"] # NaN
                    /\ source.data[i]["p-value"] <= p_threshold}
            /\ df' = df
            /\ pc' = "filter_maf"]_vars

\* the MAF message has been emitted after the p-value filter removed a row,
\* and the MAF filter then removed another
C10_Witness ==
    /\ Returned
    /\ log
    /\ logged = <<PMessage(p_threshold), MafMessage(maf_threshold)>>
    /\ Len(source.data) = 2
    /\ Len(df.data) = 0
    /\ source.data[1]["p-value"] = 2
    /\ source.data[2]["p-value"] = 0

\* ------------------------------------------------------------------ regress
\* the model strings considered: "y~grs", "y~age", "y~gars" (the letters of
\* grs, not adjacent) and "y~grs2" (the substring grs, in another term's name)
Models ==
    { <<"y", "~", "g", "r", "s">>,
      <<"y", "~", "a", "g", "e">>,
      <<"y", "~", "g", "a", "r", "s">>,
      <<"y", "~", "g", "r", "s", "2">> }

Tests == {"linear", "logistic", "poisson"}

\* sub in s, on strings
Contains(s, sub) ==
    \E i \in 1..(Len(s) - Len(sub) + 1) : SubSeq(s, i, i + Len(sub) - 1) = sub

\* "grs" in model
HasGrs(m) == Contains(m, <<"g", "r", "s">>)

\* ValidTests with a third test kind let through
ValidTestsWithPoisson == {"linear", "logistic", "poisson"}

\* {"linear", "logistic"}
ValidTests == {"linear", "logistic"}

\* one result group the engine may hand to the subscriber: the statistics of
\* each term of the fitted model, under the term's name
Group(term, k) ==
    (term :> [coef |-> 10 * k + 1, lower_ci |-> 10 * k + 2,
              upper_ci |-> 10 * k + 3, p_value |-> 10 * k + 4])
    @@ ("intercept" :> [coef |-> 10 * k + 5])
    @@ ("MODEL" :> [r_squared_adj |-> 10 * k + 6])

Groups == {Group("grs", 1), Group("grs", 2), Group("grs2", 3)}

\* Extract with intercept and R2 read whatever the test
ExtractAllFields(group, t) ==
    ("beta" :> group["grs"].coef)
    @@ ("CI" :> <<group["grs"].lower_ci, group["grs"].upper_ci>>)
    @@ ("p-value" :> group["grs"].p_value)
    @@ ("intercept" :> group["intercept"].coef)
    @@ ("R2" :> group["MODEL"].r_squared_adj)

\* lines 128-136: the dict out built from the sole result group
Extract(group, t) ==
    ("beta" :> group["grs"].coef)
    @@ ("CI" :> <<group["grs"].lower_ci, group["grs"].upper_ci>>)
    @@ ("p-value" :> group["grs"].p_value)
    @@ (IF t = "linear"
        THEN ("intercept" :> group["intercept"].coef)
             @@ ("R2" :> group["MODEL"].r_squared_adj)
        ELSE <<>>)

\* line 83: the arguments
InitRegress ==
    /\ model \in Models
    /\ test \in Tests
    /\ calls = <<>>
    /\ results = <<>>
    /\ out = <<>>
    /\ rpc = "load_grs"
    /\ rerr = "none"
    /\ p_threshold = DefaultPThreshold
    /\ maf_threshold = DefaultMafThreshold
    /\ log = FALSE
    /\ source = ReadCsv(<<>>, <<>>)
    /\ df = ReadCsv(<<>>, <<>>)
    /\ logged = <<>>
    /\ pc = "idle"
    /\ perr = "none"

\* line 87
LoadGrs ==
    /\ rpc = "load_grs"
    /\ calls' = Append(calls, "TextPhenotypes(grs_filename)")
    /\ rpc' = "load_phenotypes"
    /\ UNCHANGED <<model, test, results, out, rerr>>
    /\ UNCHANGED parseVars

\* lines 90-94
LoadPhenotypes ==
    /\ rpc = "load_phenotypes"
    /\ calls' = Append(calls, "TextPhenotypes(phenotypes_filename)")
    /\ rpc' = "merge"
    /\ UNCHANGED <<model, test, results, out, rerr>>
    /\ UNCHANGED parseVars

\* lines 96-98: the merge, and the empty subscriber
Merge ==
    /\ rpc = "merge"
    /\ calls' = Append(calls, "phenotypes.merge(grs)")
    /\ results' = <<>>
    /\ rpc' = "check_model"
    /\ UNCHANGED <<model, test, out, rerr>>
    /\ UNCHANGED parseVars

\* lines 100-106
CheckModel ==
    /\ rpc = "check_model"
    /\ IF ~HasGrs(model)
       THEN /\ rpc' = "failed"
            /\ rerr' = "ValueError: The grs should be included in the regression model."
       ELSE /\ rpc' = "check_test"
            /\ rerr' = rerr
    /\ UNCHANGED <<model, test, calls, results, out>>
    /\ UNCHANGED parseVars

\* lines 108-110
CheckTest ==
    /\ rpc = "check_test"
    /\ IF test \notin ValidTests
       THEN /\ rpc' = "failed"
            /\ rerr' = "ValueError: Statistical test should be logistic or linear."
       ELSE /\ rpc' = "execute"
            /\ rerr' = rerr
    /\ UNCHANGED <<model, test, calls, results, out>>
    /\ UNCHANGED parseVars

\* lines 112-118: the engine hands any number of result groups to the subscriber
ExecuteFormula ==
    /\ rpc = "execute"
    /\ calls' = Append(calls, "execute_formula")
    /\ \E delivered \in SeqsUpTo(Groups, MaxGroups) : results' = delivered
    /\ rpc' = "check_results"
    /\ UNCHANGED <<model, test, out, rerr>>
    /\ UNCHANGED parseVars

\* NotSingle testing for an empty list only
NotSingleEmptyOnly(r) == Len(r) = 0

\* len(results) != 1
NotSingle(r) == Len(r) # 1

\* lines 120-126
CheckResults ==
    /\ rpc = "check_results"
    /\ IF NotSingle(results)
       THEN /\ rpc' = "failed"
            /\ rerr' = "NotImplementedError"
       ELSE /\ rpc' = "extract"
            /\ rerr' = rerr
    /\ UNCHANGED <<model, test, calls, results, out>>
    /\ UNCHANGED parseVars

\* lines 126-138: a KeyError at line 130 when the group has no grs term
ExtractStep ==
    /\ rpc = "extract"
    /\ IF "grs" \in DOMAIN results[1]
       THEN /\ out' = Extract(results[1], test)
            /\ rpc' = "returned"
            /\ rerr' = rerr
       ELSE /\ out' = out
            /\ rpc' = "failed"
            /\ rerr' = "KeyError"
    /\ UNCHANGED <<model, test, calls, results>>
    /\ UNCHANGED parseVars

NextRegress ==
    \/ LoadGrs
    \/ LoadPhenotypes
    \/ Merge
    \/ CheckModel
    \/ CheckTest
    \/ ExecuteFormula
    \/ CheckResults
    \/ ExtractStep

SpecRegress == InitRegress /\ [][NextRegress]_vars

\* ------------------------------------------------------------------ properties of regress
LoadAndMergeCalls ==
    {"TextPhenotypes(grs_filename)", "TextPhenotypes(phenotypes_filename)",
     "phenotypes.merge(grs)"}

Dispatched == "execute_formula" \in Range(calls)

ModelError == "ValueError: The grs should be included in the regression model."
TestError == "ValueError: Statistical test should be logistic or linear."

\* C2 (as stated): with a model that does not contain grs, regress loads
\* nothing, merges nothing and dispatches nothing, and when it has failed it
\* has failed with the model error.
C2_FailsBeforeLoading ==
    ~HasGrs(model) =>
        /\ Range(calls) \cap LoadAndMergeCalls = {}
        /\ ~Dispatched
        /\ rpc # "returned"
        /\ rpc = "failed" => rerr = ModelError

\* C3: with a model that contains grs and a test other than linear and
\* logistic, regress goes no further than the test check: it fails there with
\* the unsupported-test error, returns no record and never dispatches the
\* engine.
C3_UnsupportedTest ==
    (HasGrs(model) /\ test \notin {"linear", "logistic"}) =>
        /\ rpc \in {"load_grs", "load_phenotypes", "merge", "check_model",
                    "check_test", "failed"}
        /\ rpc = "failed" => rerr = TestError
        /\ ~Dispatched
        /\ DOMAIN out = {}

\* regress("y~grs", "poisson", ...) has failed with the unsupported-test error
C3_Witness ==
    /\ model = <<"y", "~", "g", "r", "s">>
    /\ test = "poisson"
    /\ rpc = "failed"
    /\ rerr = TestError

\* C4: once the engine has been dispatched, regress returns only if the
\* subscriber holds exactly one result group; with none, or with two or more,
\* it goes no further than the length check, fails there with the
\* NotImplementedError and returns no record.
C4_SingleGroup ==
    /\ rpc = "returned" => (Dispatched /\ Len(results) = 1)
    /\ (Dispatched /\ Len(results) # 1) =>
         /\ rpc \in {"check_results", "failed"}
         /\ rpc = "failed" => rerr = "NotImplementedError"
         /\ DOMAIN out = {}

\* the engine delivered two groups and regress has failed
C4_Witness ==
    /\ Dispatched
    /\ Len(results) = 2
    /\ rpc = "failed"
    /\ rerr = "NotImplementedError"

\* C5: the record regress returns has beta, CI and p-value, taken from the grs
\* term of the sole result group, CI being the pair (lower, upper); it has
\* intercept and R2 as well, from the intercept and MODEL entries of the group,
\* if and only if the test is linear.
C5_ResultRecord ==
    rpc = "returned" =>
        /\ Len(results) = 1
        /\ DOMAIN out = {"beta", "CI", "p-value"}
                        \cup (IF test = "linear" THEN {"intercept", "R2"} ELSE {})
        /\ out["beta"] = results[1]["grs"].coef
        /\ out["CI"] = <<results[1]["grs"].lower_ci, results[1]["grs"].upper_ci>>
        /\ Len(out["CI"]) = 2
        /\ out["p-value"] = results[1]["grs"].p_value
        /\ test = "linear" =>
             /\ out["intercept"] = results[1]["intercept"].coef
             /\ out["R2"] = results[1]["MODEL"].r_squared_adj

\* a logistic regression has returned its record
C5_Witness ==
    /\ rpc = "returned"
    /\ test = "logistic"
    /\ DOMAIN out = {"beta", "CI", "p-value"}

====
